---- MODULE Spec2Model ----
(***************************************************************************)
(* Model of hwy/contrib/thread_pool/spin.h: the three spin-wait policy     *)
(* classes (SpinPause, SpinMonitorX, SpinUMonitor), DetectSpin and         *)
(* CallWithSpin, run against a writer thread that owns the watched         *)
(* std::atomic<uint32_t>.                                                  *)
(*                                                                         *)
(* A uint32_t is a pair <<hi, lo>> of 16-bit limbs (value hi * 2^16 + lo), *)
(* so that 2^32 - 1 and the wrap to 0 are exact.                           *)
(***************************************************************************)
EXTENDS Integers, Sequences, FiniteSets

VARIABLES
    build,        \* HWY_ENABLE_MONITORX / HWY_ENABLE_UMONITOR of this build
    cpu,          \* what x86::IsAMD, x86::MaxLevel and x86::Cpuid report
    detected,     \* SpinType returned by the last DetectSpin call
    warnings,     \* number of HWY_WARN messages emitted so far
    lastMask,     \* `disabled` argument of the last DetectSpin call
    detectCalls,  \* number of DetectSpin calls so far
    watched,      \* the std::atomic<uint32_t> locations, owned by the caller
    writes,       \* number of stores made to each location
    pc,           \* per waiter thread: position inside the wait call
    spin,         \* per waiter: policy class CallWithSpin instantiated
    op,           \* per waiter: method called on it
    arg,          \* per waiter: `prev` / `expected`
    loc,          \* per waiter: which location `watched` refers to
    current,      \* per waiter: local `current`
    reps,         \* per waiter: loop counter `reps`
    ret,          \* per waiter: value returned when pc = "done"
    monitor,      \* per waiter: address monitor of its hardware thread
    executed,     \* per waiter: Pause / monitor / mwait instructions retired
                  \* since the first state of the behaviour
    hist,         \* per waiter: did the return condition hold / fail during the call
    window,       \* per waiter: steps taken while the writer holds a value
    before,       \* per waiter: rounds of the call in progress that ended before the
                  \* first state of the behaviour (0 unless it starts inside a call)
    lastKind,     \* spin_type argument of the last CallWithSpin given a recording func
    invoked       \* the policy objects that func was called with, in order

configVars == <<build, cpu>>
detectVars == <<detected, warnings, lastMask, detectCalls>>
memVars == <<watched, writes>>
waitVars == <<pc, spin, op, arg, loc, current, reps, ret, monitor, executed, hist>>
dispatchVars == <<lastKind, invoked>>
vars == <<configVars, detectVars, memVars, waitVars, window, before, dispatchVars>>

-----------------------------------------------------------------------------
(* Bounds of the model.                                                    *)

MaxWrites == 2
MaxReps == 2
MaxDetectCalls == 1
MaxMask == 15

\* The waiter threads and the watched locations of the program.
Waiters == {1, 2}
Locs == {1}

-----------------------------------------------------------------------------
(* uint32_t / size_t arithmetic on 16-bit limbs, most significant first.   *)

LimbMax == 2^16 - 1

Zero32 == <<0, 0>>
One32 == <<0, 1>>
Max32 == <<LimbMax, LimbMax>>
Zero64 == <<0, 0, 0, 0>>
Zero48 == <<0, 0, 0>>

RECURSIVE Inc(_)
\* ++x on an unsigned integer of Len(x) limbs, wrapping to 0.
Inc(x) ==
    IF x = <<>> THEN <<>>
    ELSE LET n == Len(x) IN
         IF x[n] = LimbMax
         THEN Inc(SubSeq(x, 1, n - 1)) \o <<0>>
         ELSE SubSeq(x, 1, n - 1) \o <<x[n] + 1>>

\* The values the writer stores: 0, 1 and 2^32 - 1 (whose successor is 0).
Values == {Zero32, One32, Max32}

-----------------------------------------------------------------------------
(* SpinType and the policy classes.                                        *)

kMonitorX == 0
kUMonitor == 1
kPause == 2
SpinTypes == {kMonitorX, kUMonitor, kPause}

Classes == {"SpinMonitorX", "SpinUMonitor", "SpinPause"}

\* Type() of each policy class.
Type(class) ==
    CASE class = "SpinMonitorX" -> kMonitorX
      [] class = "SpinUMonitor" -> kUMonitor
      [] class = "SpinPause" -> kPause

\* SpinResult{current, reps}
SpinResult(cur, r) == [current |-> cur, reps |-> r]

-----------------------------------------------------------------------------
(* DetectSpin.                                                             *)

\* The leaves DetectSpin queries.
LeafExt == "0x80000001"
Leaf7 == "7"

\* x86::Cpuid(level, 0, abcd): abcd as <<EAX, EBX, ECX, EDX>>; only ECX is read.
Cpuid(level) == <<0, 0, cpu.ecx[level], 0>>

\* x86::IsBitSet(reg, index)
IsBitSet(reg, index) == (reg \div 2^index) % 2 = 1

\* (Variant: a shift in place of the mask, (disabled >> type) == 0.)
enabledMut(disabled, type) == disabled \div 2^type = 0
\* The lambda `enabled`: (disabled & (1 << type)) == 0, on a two's complement int.
enabled(disabled, type) == (disabled \div 2^type) % 2 = 0

\* (Variant: the kMonitorX branch without the `enabled` test.)
DetectMonitorXMut(disabled) ==
    /\ build.monitorx
    /\ cpu.isAMD
    /\ IsBitSet(Cpuid(LeafExt)[3], 29)
\* #if HWY_ENABLE_MONITORX block: TRUE when it returns kMonitorX.
DetectMonitorX(disabled) ==
    /\ build.monitorx
    /\ enabled(disabled, kMonitorX)
    /\ cpu.isAMD
    /\ IsBitSet(Cpuid(LeafExt)[3], 29)

\* (Variant: the kUMonitor branch outside its #if.)
DetectUMonitorMut(disabled) ==
    /\ enabled(disabled, kUMonitor)
    /\ cpu.maxLevel >= 7
    /\ IsBitSet(Cpuid(Leaf7)[3], 5)
\* #if HWY_ENABLE_UMONITOR block: TRUE when it returns kUMonitor.
DetectUMonitor(disabled) ==
    /\ build.umonitor
    /\ enabled(disabled, kUMonitor)
    /\ cpu.maxLevel >= 7
    /\ IsBitSet(Cpuid(Leaf7)[3], 5)

\* (Variant: the fall-through path never warns.)
PauseWarnsMut(disabled) == 0 * disabled
\* Number of HWY_WARN calls on the fall-through path.
PauseWarns(disabled) == IF ~enabled(disabled, kPause) THEN 1 ELSE 0

\* (Variant: the two vendor branches in the opposite order.)
DetectSpinMut(disabled) ==
    IF DetectUMonitor(disabled) THEN [type |-> kUMonitor, warns |-> 0]
    ELSE IF DetectMonitorX(disabled) THEN [type |-> kMonitorX, warns |-> 0]
    ELSE [type |-> kPause, warns |-> PauseWarns(disabled)]
\* DetectSpin(disabled): the returned SpinType and the warnings emitted.
DetectSpin(disabled) ==
    IF DetectMonitorX(disabled) THEN [type |-> kMonitorX, warns |-> 0]
    ELSE IF DetectUMonitor(disabled) THEN [type |-> kUMonitor, warns |-> 0]
    ELSE [type |-> kPause, warns |-> PauseWarns(disabled)]

\* One call of DetectSpin by the program.
DetectSpinCall(disabled) ==
    /\ detectCalls < MaxDetectCalls
    /\ detected' = DetectSpin(disabled).type
    /\ warnings' = warnings + DetectSpin(disabled).warns
    /\ lastMask' = disabled
    /\ detectCalls' = detectCalls + 1
    /\ UNCHANGED configVars

-----------------------------------------------------------------------------
(* CallWithSpin.                                                           *)

\* (Variant: the two vendor cases construct each other's class.)
SwitchCasesMut ==
    (IF build.monitorx
        THEN <<[labels |-> {kMonitorX}, isDefault |-> FALSE,
                class |-> "SpinUMonitor", break |-> TRUE]>>
        ELSE <<>>)
    \o (IF build.umonitor
        THEN <<[labels |-> {kUMonitor}, isDefault |-> FALSE,
                class |-> "SpinMonitorX", break |-> TRUE]>>
        ELSE <<>>)
    \o <<[labels |-> {kPause}, isDefault |-> TRUE,
           class |-> "SpinPause", break |-> TRUE]>>
\* The case groups of the switch in CallWithSpin that the build compiles, in
\* source order: the case labels, whether `default:` is among them, the class
\* whose instance is passed to func, and whether the group ends with `break`.
SwitchCases ==
    (IF build.monitorx
        THEN <<[labels |-> {kMonitorX}, isDefault |-> FALSE,
                class |-> "SpinMonitorX", break |-> TRUE]>>
        ELSE <<>>)
    \o (IF build.umonitor
        THEN <<[labels |-> {kUMonitor}, isDefault |-> FALSE,
                class |-> "SpinUMonitor", break |-> TRUE]>>
        ELSE <<>>)
    \o <<[labels |-> {kPause}, isDefault |-> TRUE,
           class |-> "SpinPause", break |-> TRUE]>>

\* (Variant: a switch without `default:`.)
SwitchEntryMut(spin_type) ==
    LET hits == {i \in 1..Len(SwitchCases) : spin_type \in SwitchCases[i].labels}
    IN  IF hits # {} THEN CHOOSE i \in hits : TRUE
        ELSE Len(SwitchCases) + 1
\* Where `switch (spin_type)` jumps: the group with a matching case label,
\* else the group holding `default:`, else past the end of the switch.
SwitchEntry(spin_type) ==
    LET hits == {i \in 1..Len(SwitchCases) : spin_type \in SwitchCases[i].labels}
        dflt == {i \in 1..Len(SwitchCases) : SwitchCases[i].isDefault}
    IN  IF hits # {} THEN CHOOSE i \in hits : TRUE
        ELSE IF dflt # {} THEN CHOOSE i \in dflt : TRUE
        ELSE Len(SwitchCases) + 1

\* The func calls executed from group i on: one per group, falling through to
\* the next group unless the group ends with `break`.
RECURSIVE RunFrom(_)
RunFrom(i) ==
    IF i > Len(SwitchCases) THEN <<>>
    ELSE <<SwitchCases[i].class>>
         \o (IF SwitchCases[i].break THEN <<>> ELSE RunFrom(i + 1))

\* CallWithSpin(spin_type, func): the classes of the objects func is called
\* with, one entry per call, in order.
FuncCalls(spin_type) == RunFrom(SwitchEntry(spin_type))

\* The class the switch of CallWithSpin instantiates for spin_type.
SpinClass(spin_type) == FuncCalls(spin_type)[1]

\* CallWithSpin(spin_type, func) with a func that records its argument.
CallWithSpinRecording(spin_type) ==
    /\ lastKind' = spin_type
    /\ invoked' = FuncCalls(spin_type)
    /\ UNCHANGED configVars

-----------------------------------------------------------------------------
(* The wait loops.  pc follows one call of UntilDifferent / UntilEqual:    *)
(*   "idle"    no call in progress                                         *)
(*   "load"    at the first watched.load of a round                        *)
(*   "pause"   SpinPause: at hwy::Pause()                                  *)
(*   "monitor" monitor classes: at _mm_monitorx / _umonitor                *)
(*   "recheck" monitor classes: at the second watched.load                 *)
(*   "mwait"   monitor classes: in _mm_mwaitx / _umwait                    *)
(*   "done"    returned; ret holds the returned value                      *)

Ops == {"UntilDifferent", "UntilEqual"}

\* (Variant: the test of UntilDifferent inverted.)
UntilDifferentDoneMut(cur, prev) == cur = prev
\* `if (current != prev) return` of UntilDifferent.
UntilDifferentDone(cur, prev) == cur # prev

\* (Variant: the test of UntilEqual inverted.)
UntilEqualDoneMut(cur, expected) == cur # expected
\* `if (current == expected) return` of UntilEqual.
UntilEqualDone(cur, expected) == cur = expected

\* The return test of method o.
Satisfied(o, cur, a) ==
    IF o = "UntilDifferent" THEN UntilDifferentDone(cur, a)
    ELSE UntilEqualDone(cur, a)

\* The value method o returns: SpinResult{current, reps}; UntilEqual returns
\* reps alone (a size_t), held in the same record with an empty `current`.
Returned(o, cur, r) ==
    IF o = "UntilDifferent" THEN SpinResult(cur, r) ELSE [current |-> <<>>, reps |-> r]

\* `uint32_t reps = 0` in UntilDifferent, `size_t reps = 0` in UntilEqual.
InitialReps(o) == IF o = "UntilDifferent" THEN Zero32 ELSE Zero64

NoExecuted == [pause |-> 0, monitor |-> 0, mwait |-> 0]
NoMonitor == [addr |-> 0, hit |-> FALSE]
NoRet == SpinResult(Zero32, Zero32)

\* Waiter t is inside a call.
Active(t) == pc[t] \notin {"idle", "done"}

\* Rounds the call of waiter t has completed without returning.
Rounds(t) == executed[t].pause + executed[t].mwait

\* CallWithSpin(spin_type, func), func calling method o with argument a on
\* location l: the policy object is constructed and the loop is entered.
CallWithSpin(t, spin_type, o, a, l) ==
    /\ pc[t] = "idle"
    /\ spin' = [spin EXCEPT ![t] = SpinClass(spin_type)]
    /\ op' = [op EXCEPT ![t] = o]
    /\ arg' = [arg EXCEPT ![t] = a]
    /\ loc' = [loc EXCEPT ![t] = l]
    /\ current' = [current EXCEPT ![t] = Zero32]
    /\ reps' = [reps EXCEPT ![t] = InitialReps(o)]
    /\ ret' = [ret EXCEPT ![t] = NoRet]
    /\ executed' = [executed EXCEPT ![t] = NoExecuted]
    /\ hist' = [hist EXCEPT ![t] = [sat |-> Satisfied(o, watched[l], a),
                                    unsat |-> ~Satisfied(o, watched[l], a)]]
    /\ pc' = [pc EXCEPT ![t] = "load"]
    /\ UNCHANGED <<monitor, memVars>>

\* (Variant: no first check; every round goes on to Pause / monitor.)
LoadMut(t) ==
    /\ pc[t] = "load"
    /\ current' = [current EXCEPT ![t] = watched[loc[t]]]
    /\ pc' = [pc EXCEPT ![t] = IF spin[t] = "SpinPause" THEN "pause" ELSE "monitor"]
    /\ UNCHANGED <<spin, op, arg, loc, reps, ret, monitor, executed, hist, memVars>>
\* current = watched.load(acquire); if (<test>) return ...;  (first check)
Load(t) ==
    /\ pc[t] = "load"
    /\ LET cur == watched[loc[t]] IN
       /\ current' = [current EXCEPT ![t] = cur]
       /\ IF Satisfied(op[t], cur, arg[t])
          THEN /\ ret' = [ret EXCEPT ![t] = Returned(op[t], cur, reps[t])]
               /\ pc' = [pc EXCEPT ![t] = "done"]
          ELSE /\ pc' = [pc EXCEPT ![t] =
                            IF spin[t] = "SpinPause" THEN "pause" ELSE "monitor"]
               /\ UNCHANGED ret
    /\ UNCHANGED <<spin, op, arg, loc, reps, monitor, executed, hist, memVars>>

\* hwy::Pause(); ++reps.  The model stops a waiter after MaxReps rounds that
\* cannot return; a round whose load would return is never cut.
Pause(t) ==
    /\ pc[t] = "pause"
    /\ Rounds(t) < MaxReps \/ Satisfied(op[t], watched[loc[t]], arg[t])
    /\ reps' = [reps EXCEPT ![t] = Inc(reps[t])]
    /\ executed' = [executed EXCEPT ![t].pause = @ + 1]
    /\ pc' = [pc EXCEPT ![t] = "load"]
    /\ UNCHANGED <<spin, op, arg, loc, current, ret, monitor, hist, memVars>>

\* (Variant: the monitor is armed on the local `current`, not on `watched`.)
MonitorWrongLineMut(t) ==
    /\ pc[t] = "monitor"
    /\ monitor' = [monitor EXCEPT ![t] = NoMonitor]
    /\ executed' = [executed EXCEPT ![t].monitor = @ + 1]
    /\ pc' = [pc EXCEPT ![t] = "recheck"]
    /\ UNCHANGED <<spin, op, arg, loc, current, reps, ret, hist, memVars>>
\* (Variant: no double check; the wait follows the arming directly.)
MonitorMut(t) ==
    /\ pc[t] = "monitor"
    /\ monitor' = [monitor EXCEPT ![t] = [addr |-> loc[t], hit |-> FALSE]]
    /\ executed' = [executed EXCEPT ![t].monitor = @ + 1]
    /\ pc' = [pc EXCEPT ![t] = "mwait"]
    /\ UNCHANGED <<spin, op, arg, loc, current, reps, ret, hist, memVars>>
\* _mm_monitorx(&watched, 0, 0) / _umonitor(&watched): arm the monitor.
Monitor(t) ==
    /\ pc[t] = "monitor"
    /\ monitor' = [monitor EXCEPT ![t] = [addr |-> loc[t], hit |-> FALSE]]
    /\ executed' = [executed EXCEPT ![t].monitor = @ + 1]
    /\ pc' = [pc EXCEPT ![t] = "recheck"]
    /\ UNCHANGED <<spin, op, arg, loc, current, reps, ret, hist, memVars>>

\* (Variant: the double check is an exchange that stores the argument.)
RecheckMut(t) ==
    /\ pc[t] = "recheck"
    /\ LET cur == watched[loc[t]] IN
       /\ current' = [current EXCEPT ![t] = cur]
       /\ watched' = [watched EXCEPT ![loc[t]] = arg[t]]
       /\ IF Satisfied(op[t], cur, arg[t])
          THEN /\ ret' = [ret EXCEPT ![t] = Returned(op[t], cur, reps[t])]
               /\ pc' = [pc EXCEPT ![t] = "done"]
          ELSE /\ pc' = [pc EXCEPT ![t] = "mwait"]
               /\ UNCHANGED ret
    /\ UNCHANGED <<spin, op, arg, loc, reps, monitor, executed, hist, writes>>
\* current = watched.load(acquire); if (<test>) return ...;  (double check)
Recheck(t) ==
    /\ pc[t] = "recheck"
    /\ LET cur == watched[loc[t]] IN
       /\ current' = [current EXCEPT ![t] = cur]
       /\ IF Satisfied(op[t], cur, arg[t])
          THEN /\ ret' = [ret EXCEPT ![t] = Returned(op[t], cur, reps[t])]
               /\ pc' = [pc EXCEPT ![t] = "done"]
          ELSE /\ pc' = [pc EXCEPT ![t] = "mwait"]
               /\ UNCHANGED ret
    /\ UNCHANGED <<spin, op, arg, loc, reps, monitor, executed, hist, memVars>>

\* (Variant: the call gives up when the wait instruction ends.)
WakeUpMut(t) ==
    /\ monitor' = [monitor EXCEPT ![t] = NoMonitor]
    /\ reps' = [reps EXCEPT ![t] = Inc(reps[t])]
    /\ executed' = [executed EXCEPT ![t].mwait = @ + 1]
    /\ ret' = [ret EXCEPT ![t] = Returned(op[t], current[t], Inc(reps[t]))]
    /\ pc' = [pc EXCEPT ![t] = "done"]
    /\ UNCHANGED <<spin, op, arg, loc, current, hist, memVars>>
\* What completing the wait instruction does: the monitor is consumed and the
\* loop goes to its next round (++reps).
WakeUp(t) ==
    /\ monitor' = [monitor EXCEPT ![t] = NoMonitor]
    /\ reps' = [reps EXCEPT ![t] = Inc(reps[t])]
    /\ executed' = [executed EXCEPT ![t].mwait = @ + 1]
    /\ pc' = [pc EXCEPT ![t] = "load"]
    /\ UNCHANGED <<spin, op, arg, loc, current, ret, hist, memVars>>

\* _mm_mwaitx(kExtensions, kHints, 0) / _umwait(kControl, kDeadline) ends
\* because the armed line was written (no timeout is configured).
MWait(t) ==
    /\ pc[t] = "mwait"
    /\ monitor[t].hit
    /\ WakeUp(t)

\* The wait instruction ends for another reason (interrupt, false sharing of
\* the line, ...).  Cut after MaxReps rounds, like Pause.
MWaitSpurious(t) ==
    /\ pc[t] = "mwait"
    /\ Rounds(t) < MaxReps
    /\ WakeUp(t)

\* The caller takes the returned value; the thread may call again.
Finish(t) ==
    /\ pc[t] = "done"
    /\ pc' = [pc EXCEPT ![t] = "idle"]
    /\ spin' = [spin EXCEPT ![t] = "SpinPause"]
    /\ op' = [op EXCEPT ![t] = "UntilDifferent"]
    /\ arg' = [arg EXCEPT ![t] = Zero32]
    /\ loc' = [loc EXCEPT ![t] = 1]
    /\ current' = [current EXCEPT ![t] = Zero32]
    /\ reps' = [reps EXCEPT ![t] = Zero32]
    /\ ret' = [ret EXCEPT ![t] = NoRet]
    /\ executed' = [executed EXCEPT ![t] = NoExecuted]
    /\ hist' = [hist EXCEPT ![t] = [sat |-> FALSE, unsat |-> FALSE]]
    /\ UNCHANGED <<monitor, memVars>>

\* The instructions of waiter t that the scheduler and the hardware complete
\* on their own (everything but a spurious wake-up).
WaiterStep(t) ==
    \/ Load(t)
    \/ Pause(t)
    \/ Monitor(t)
    \/ Recheck(t)
    \/ MWait(t)

\* The writer thread stores v to location l (release).  Monitors armed on the
\* line are triggered.
Store(l, v) ==
    /\ writes[l] < MaxWrites
    /\ watched' = [watched EXCEPT ![l] = v]
    /\ writes' = [writes EXCEPT ![l] = @ + 1]
    /\ monitor' = [t \in DOMAIN monitor |->
                      IF monitor[t].addr = l
                      THEN [monitor[t] EXCEPT !.hit = TRUE]
                      ELSE monitor[t]]
    /\ hist' = [t \in DOMAIN hist |->
                   IF pc[t] \notin {"idle", "done"} /\ loc[t] = l
                   THEN [sat |-> hist[t].sat \/ Satisfied(op[t], v, arg[t]),
                         unsat |-> hist[t].unsat \/ ~Satisfied(op[t], v, arg[t])]
                   ELSE hist[t]]
    /\ UNCHANGED <<pc, spin, op, arg, loc, current, reps, ret, executed>>

-----------------------------------------------------------------------------
(* The program: DetectSpin once at startup, then waits through             *)
(* CallWithSpin with the detected type, against the writer.                *)

\* A processor that reports both MONITORX and WAITPKG.
BothCpu ==
    [isAMD |-> TRUE, maxLevel |-> 7, ecx |-> [x \in {LeafExt, Leaf7} |-> IF x = LeafExt THEN 2^29 ELSE 2^5]]

\* `disabled` masks used at startup: nothing, kMonitorX, both vendor kinds, all.
StartupMasks == {0, 2^kMonitorX, 2^kMonitorX + 2^kUMonitor, 2^kMonitorX + 2^kUMonitor + 2^kPause}

WaitInit ==
    /\ pc = [t \in Waiters |-> "idle"]
    /\ spin = [t \in Waiters |-> "SpinPause"]
    /\ op = [t \in Waiters |-> "UntilDifferent"]
    /\ arg = [t \in Waiters |-> Zero32]
    /\ loc = [t \in Waiters |-> 1]
    /\ current = [t \in Waiters |-> Zero32]
    /\ reps = [t \in Waiters |-> Zero32]
    /\ ret = [t \in Waiters |-> NoRet]
    /\ monitor = [t \in Waiters |-> NoMonitor]
    /\ executed = [t \in Waiters |-> NoExecuted]
    /\ hist = [t \in Waiters |-> [sat |-> FALSE, unsat |-> FALSE]]
    /\ window = [t \in Waiters |-> 0]
    /\ before = [t \in Waiters |-> Zero48]

DetectInit ==
    /\ detected = kPause
    /\ warnings = 0
    /\ lastMask = 0
    /\ detectCalls = 0
    /\ lastKind = kPause
    /\ invoked = <<>>

Init ==
    /\ build = [monitorx |-> TRUE, umonitor |-> TRUE]
    /\ cpu = BothCpu
    /\ DetectInit
    /\ watched \in [Locs -> Values]
    /\ writes = [l \in Locs |-> 0]
    /\ WaitInit

Startup ==
    /\ detectCalls = 0
    /\ \E m \in StartupMasks : DetectSpinCall(m)
    /\ UNCHANGED <<memVars, waitVars, window, before, dispatchVars>>

Call ==
    /\ detectCalls > 0
    /\ \E t \in DOMAIN pc, o \in Ops, a \in Values, l \in DOMAIN watched :
          CallWithSpin(t, detected, o, a, l)
    /\ UNCHANGED <<configVars, detectVars, window, before, dispatchVars>>

Step ==
    /\ \E t \in DOMAIN pc : WaiterStep(t)
    /\ UNCHANGED <<configVars, detectVars, window, before, dispatchVars>>

Spurious ==
    /\ \E t \in DOMAIN pc : MWaitSpurious(t)
    /\ UNCHANGED <<configVars, detectVars, window, before, dispatchVars>>

Done ==
    /\ \E t \in DOMAIN pc : Finish(t)
    /\ UNCHANGED <<configVars, detectVars, window, before, dispatchVars>>

Write ==
    /\ \E l \in DOMAIN watched, v \in Values : Store(l, v)
    /\ UNCHANGED <<configVars, detectVars, window, before, dispatchVars>>

Next == Startup \/ Call \/ Step \/ Spurious \/ Done \/ Write

Spec == Init /\ [][Next]_vars

-----------------------------------------------------------------------------
(* Scenario: waiters call UntilDifferent(v) while watched = v, and the     *)
(* writer stores one different value, once, at any later point.            *)

CallPrev ==
    /\ detectCalls > 0
    /\ \E t \in DOMAIN pc, l \in DOMAIN watched :
          /\ writes[l] = 0
          /\ CallWithSpin(t, detected, "UntilDifferent", watched[l], l)
    /\ UNCHANGED <<configVars, detectVars, window, before, dispatchVars>>

WriteOnce ==
    /\ \E l \in DOMAIN watched, v \in Values :
          /\ writes[l] = 0
          /\ \E t \in DOMAIN pc : pc[t] # "idle" /\ loc[t] = l
          /\ v # watched[l]
          /\ Store(l, v)
    /\ UNCHANGED <<configVars, detectVars, window, before, dispatchVars>>

OneWriteNext == Startup \/ CallPrev \/ Step \/ Spurious \/ WriteOnce

\* Every thread is scheduled again and again, a wait instruction whose
\* monitor was hit completes, and the writer does store.  Nothing promises
\* a spurious wake-up.
OneWriteFairness ==
    /\ \A t \in Waiters : WF_vars(WaiterStep(t) /\ UNCHANGED <<configVars, detectVars, window, before, dispatchVars>>)
    /\ WF_vars(WriteOnce)

OneWriteSpec == Init /\ [][OneWriteNext]_vars /\ OneWriteFairness

-----------------------------------------------------------------------------
(* Scenario: waiters are blocked in UntilEqual(expected); the writer       *)
(* stores a first value, holds it for one polling round of every waiter    *)
(* blocked on the location, then stores a different value.                 *)

\* Instructions in one round of the loop: load, Pause; respectively load,
\* monitor, load, wait.
RoundSteps(class) == IF class = "SpinPause" THEN 2 ELSE 4

\* Steps waiter t has taken since the first store, up to one round.
Tick(t) ==
    window' = [window EXCEPT ![t] =
                  IF writes[loc[t]] = 1 /\ @ < RoundSteps(spin[t]) THEN @ + 1 ELSE @]

CallEqual ==
    /\ detectCalls > 0
    /\ \E t \in DOMAIN pc, a \in Values, l \in DOMAIN watched :
          /\ writes[l] = 0
          /\ a # watched[l]
          /\ CallWithSpin(t, detected, "UntilEqual", a, l)
    /\ UNCHANGED <<configVars, detectVars, window, before, dispatchVars>>

TimedStep(t) ==
    /\ WaiterStep(t)
    /\ Tick(t)
    /\ UNCHANGED <<configVars, detectVars, before, dispatchVars>>

TimedSpurious ==
    /\ \E t \in DOMAIN pc : MWaitSpurious(t) /\ Tick(t)
    /\ UNCHANGED <<configVars, detectVars, before, dispatchVars>>

WriteFirst ==
    /\ \E l \in DOMAIN watched, v \in Values :
          /\ writes[l] = 0
          /\ \E t \in DOMAIN pc : Active(t) /\ loc[t] = l
          /\ Store(l, v)
    /\ UNCHANGED <<configVars, detectVars, window, before, dispatchVars>>

\* The second store ends the window.
WriteSecond ==
    /\ \E l \in DOMAIN watched, v \in Values :
          /\ writes[l] = 1
          /\ v # watched[l]
          /\ \A t \in DOMAIN pc :
                Active(t) /\ loc[t] = l /\ arg[t] = watched[l] =>
                    window[t] >= RoundSteps(spin[t])
          /\ Store(l, v)
    /\ UNCHANGED <<configVars, detectVars, window, before, dispatchVars>>

TransientNext ==
    \/ Startup
    \/ CallEqual
    \/ \E t \in Waiters : TimedStep(t)
    \/ TimedSpurious
    \/ WriteFirst
    \/ WriteSecond

TransientFairness == \A t \in Waiters : WF_vars(TimedStep(t))

\* The location starts at 0; `expected` is any other value.
TransientInit == Init /\ watched = [l \in Locs |-> Zero32]

TransientSpec == TransientInit /\ [][TransientNext]_vars /\ TransientFairness

-----------------------------------------------------------------------------
(* DetectSpin on every build, processor and mask.                          *)

Builds == [monitorx : BOOLEAN, umonitor : BOOLEAN]

\* ECX values: no feature bit, bit 5 only, bit 29 only.
EcxValues == {0, 2^5, 2^29}

Cpus == [isAMD : BOOLEAN, maxLevel : {6, 7, 8}, ecx : [{LeafExt, Leaf7} -> EcxValues]]

\* `disabled` arguments: every combination of the low four bits, and ~0.
Masks == {-1} \cup (0..MaxMask)

DetectSpecInit ==
    /\ build \in Builds
    /\ cpu \in Cpus
    /\ DetectInit
    /\ watched = [l \in Locs |-> Zero32]
    /\ writes = [l \in Locs |-> 0]
    /\ WaitInit

Detect ==
    /\ \E m \in Masks : DetectSpinCall(m)
    /\ UNCHANGED <<memVars, waitVars, window, before, dispatchVars>>

\* spin_type arguments: the three enumerators and two values outside the enum.
KindValues == SpinTypes \cup {-1, kPause + 1}

Dispatch ==
    /\ \E k \in KindValues : CallWithSpinRecording(k)
    /\ UNCHANGED <<detectVars, memVars, waitVars, window, before>>

DetectNext == Detect \/ Dispatch

DetectSpec == DetectSpecInit /\ [][DetectNext]_vars

-----------------------------------------------------------------------------
(* Properties of DetectSpin (checked under DetectSpec).                    *)

\* The processor reports MONITORX: AMD and CPUID 0x80000001 ECX bit 29.
HasMonitorX == cpu.isAMD /\ (cpu.ecx[LeafExt] \div 2^29) % 2 = 1

\* The processor reports WAITPKG: maximum level >= 7 and leaf 7 ECX bit 5.
HasUMonitor == cpu.maxLevel >= 7 /\ (cpu.ecx[Leaf7] \div 2^5) % 2 = 1

\* Bit (1 << kind) of mask is set.
MaskBit(mask, kind) == (mask \div 2^kind) % 2 = 1

\* kind is compiled into the build.
CompiledIn(kind) ==
    \/ kind = kPause
    \/ kind = kMonitorX /\ build.monitorx
    \/ kind = kUMonitor /\ build.umonitor

\* A vendor kind is compiled in, not disabled by mask and supported.
MonitorXQualifies(mask) == build.monitorx /\ ~MaskBit(mask, kMonitorX) /\ HasMonitorX
UMonitorQualifies(mask) == build.umonitor /\ ~MaskBit(mask, kUMonitor) /\ HasUMonitor

\* This step is a DetectSpin call.
DetectStep == detectCalls' = detectCalls + 1

\* C8: DetectSpin(0) never returns a kind excluded from the build, and
\* DetectSpin(mask) never returns a kind whose bit is set in mask, except
\* kPause, with a warning, when kPause's bit is set and no vendor kind is
\* both enabled and supported.
C8_DetectHonoursMask ==
    [][DetectStep =>
        /\ lastMask' = 0 => CompiledIn(detected')
        /\ MaskBit(lastMask', detected') =>
              /\ detected' = kPause
              /\ warnings' = warnings + 1
              /\ ~MonitorXQualifies(lastMask')
              /\ ~UMonitorQualifies(lastMask')]_vars

\* A call with kMonitorX disabled on an AMD processor with MONITORX, on a
\* build with both kinds, returned something else; and a call with all three
\* bits set returned kPause.
C8_Witness ==
    /\ detectCalls > 0
    /\ build.monitorx /\ HasMonitorX
    /\ MaskBit(lastMask, kMonitorX) /\ MaskBit(lastMask, kPause)
    /\ MaskBit(lastMask, kUMonitor)
    /\ detected = kPause
    /\ warnings = 1

\* C9: DetectSpin returns kMonitorX exactly when MonitorX is compiled in,
\* enabled and the processor is AMD with CPUID 0x80000001 ECX bit 29;
\* otherwise kUMonitor exactly when UMonitor is compiled in, enabled, the
\* maximum level is >= 7 and leaf 7 ECX bit 5 is set; otherwise kPause.
C9_DetectPriority ==
    [][DetectStep =>
        detected' = IF MonitorXQualifies(lastMask') THEN kMonitorX
                    ELSE IF UMonitorQualifies(lastMask') THEN kUMonitor
                    ELSE kPause]_vars

\* Both vendor kinds are compiled in and supported, kMonitorX alone is
\* disabled, and the call returned kUMonitor.
C9_Witness ==
    /\ detectCalls > 0
    /\ build.monitorx /\ build.umonitor
    /\ HasMonitorX /\ HasUMonitor
    /\ lastMask = 2^kMonitorX
    /\ detected = kUMonitor

\* C11: a DetectSpin call emits a warning exactly when kPause's bit is set in
\* the mask and no vendor kind is compiled in, enabled and supported; it then
\* still returns kPause; a call emits at most one warning, and none in every
\* other case.
C11_WarnExactlyWhenPauseForced ==
    [][DetectStep =>
        LET forced == /\ MaskBit(lastMask', kPause)
                      /\ ~MonitorXQualifies(lastMask')
                      /\ ~UMonitorQualifies(lastMask')
        IN  /\ warnings' = warnings + (IF forced THEN 1 ELSE 0)
            /\ forced => detected' = kPause]_vars

\* A call whose mask has kPause's bit set returned a vendor kind, without a
\* warning.
C11_Witness ==
    /\ detectCalls > 0
    /\ MaskBit(lastMask, kPause)
    /\ detected # kPause
    /\ warnings = 0

\* This step is a CallWithSpin call with the recording func.
DispatchStep == <<lastKind, invoked>>' # <<lastKind, invoked>>

\* C12: CallWithSpin invokes func exactly once for every kind value: each
\* enumerator on every build, and any value outside the enum.
C12_FuncCalledOnce == [][DispatchStep => Len(invoked') = 1]_vars

\* CallWithSpin was given a value outside the enum on a build with both
\* vendor kinds, and func ran.
C12_Witness ==
    /\ lastKind \notin SpinTypes
    /\ build.monitorx /\ build.umonitor
    /\ invoked # <<>>

\* C13: the object passed to func reports Type() == kind when kind is
\* compiled in; for a vendor kind excluded from the build and for any
\* unrecognised kind it is a SpinPause.
C13_InstanceMatchesKind ==
    [][DispatchStep =>
        \A i \in 1..Len(invoked') :
            /\ CompiledIn(lastKind') => Type(invoked'[i]) = lastKind'
            /\ ~CompiledIn(lastKind') => invoked'[i] = "SpinPause"]_vars

\* CallWithSpin(kUMonitor) on a build without UMonitor passed a SpinPause.
C13_Witness ==
    /\ lastKind = kUMonitor
    /\ ~build.umonitor
    /\ invoked = <<"SpinPause">>

\* C20: on every build and processor and for every mask, the kind DetectSpin
\* returned is one CallWithSpin does not substitute: given that kind, it
\* passes func an object whose Type() is that kind.
C20_DetectedIsDispatched ==
    [][DispatchStep /\ detectCalls > 0 /\ lastKind' = detected =>
        /\ invoked' # <<>>
        /\ \A i \in 1..Len(invoked') : Type(invoked'[i]) = detected]_vars

\* DetectSpin returned kUMonitor and CallWithSpin, given it, passed a
\* SpinUMonitor.
C20_Witness ==
    /\ detectCalls > 0
    /\ detected = kUMonitor
    /\ lastKind = detected
    /\ invoked = <<"SpinUMonitor">>

\* Bits 0..2 of mask: 1 << kMonitorX, 1 << kUMonitor and 1 << kPause.
KindBits(mask) == mask % 2^(kPause + 1)

\* C21: DetectSpin depends on the mask only through the bits 1 << kMonitorX,
\* 1 << kUMonitor and 1 << kPause: on the same build and processor, every mask
\* that agrees with the one passed on these three bits yields the returned
\* kind and the same number of warnings; and mask 0, the default argument,
\* disables nothing: the call returns the first compiled-in kind the
\* processor supports, without a warning.
C21_OnlyKindBitsMatter ==
    [][DetectStep =>
        /\ \A m \in Masks :
              KindBits(m) = KindBits(lastMask') =>
                  /\ DetectSpin(m).type = detected'
                  /\ DetectSpin(m).warns = warnings' - warnings
        /\ lastMask' = 0 =>
              /\ detected' = IF build.monitorx /\ HasMonitorX THEN kMonitorX
                              ELSE IF build.umonitor /\ HasUMonitor THEN kUMonitor
                              ELSE kPause
              /\ warnings' = warnings]_vars

\* A call whose mask has bit 3 set besides kMonitorX's bit returned
\* kUMonitor, as the mask 1 << kMonitorX does on that build and processor.
C21_Witness ==
    /\ detectCalls > 0
    /\ lastMask = 2^(kPause + 1) + 2^kMonitorX
    /\ build.monitorx /\ build.umonitor
    /\ HasMonitorX /\ HasUMonitor
    /\ detected = kUMonitor
    /\ warnings = 0

\* C10 as stated: DetectSpin(1 << kPause) returns kPause and emits exactly
\* one warning, on any build and any processor.
C10_PauseOnlyMaskAlwaysWarns ==
    [][DetectStep /\ lastMask' = 2^kPause =>
        /\ detected' = kPause
        /\ warnings' = warnings + 1]_vars

\* C10, amended: DetectSpin(1 << kPause) returns kPause and emits exactly one
\* warning when no vendor kind is compiled in and supported by the
\* processor; otherwise it returns that vendor kind (kMonitorX before
\* kUMonitor) and emits no warning.
C10_PauseOnlyMask ==
    [][DetectStep /\ lastMask' = 2^kPause =>
        IF MonitorXQualifies(0) THEN detected' = kMonitorX /\ warnings' = warnings
        ELSE IF UMonitorQualifies(0) THEN detected' = kUMonitor /\ warnings' = warnings
        ELSE detected' = kPause /\ warnings' = warnings + 1]_vars

\* DetectSpin(1 << kPause) on a processor without MONITORX and WAITPKG
\* returned kPause with one warning.
C10_Witness ==
    /\ detectCalls = 1
    /\ lastMask = 2^kPause
    /\ ~HasMonitorX /\ ~HasUMonitor
    /\ detected = kPause
    /\ warnings = 1

-----------------------------------------------------------------------------
(* Properties of the wait loops (checked under Spec).                      *)

\* C1: UntilDifferent never returns a result whose current equals prev; the
\* returned current is the value of the call's last load of watched.
C1_UntilDifferentNotStale ==
    \A t \in DOMAIN pc :
        pc[t] = "done" /\ op[t] = "UntilDifferent" =>
            /\ ret[t].current # arg[t]
            /\ ret[t].current = current[t]

\* SpinMonitorX::UntilDifferent(2^32 - 1) returned 0 after at least one round.
C1_Witness ==
    \E t \in DOMAIN pc :
        /\ pc[t] = "done" /\ op[t] = "UntilDifferent"
        /\ spin[t] = "SpinMonitorX"
        /\ arg[t] = Max32 /\ ret[t].current = Zero32
        /\ Rounds(t) > 0

\* C3: no missed wake-up.  A waiter in the wait instruction has its monitor
\* armed on the watched line, and either a write has hit the armed line (a
\* wake is pending) or the location still holds the value the double check
\* read, which does not satisfy the return condition.
C3_NoMissedWakeup ==
    \A t \in DOMAIN pc :
        pc[t] = "mwait" =>
            /\ monitor[t].addr = loc[t]
            /\ \/ monitor[t].hit
               \/ /\ watched[loc[t]] = current[t]
                  /\ ~Satisfied(op[t], watched[loc[t]], arg[t])

\* A waiter is in the wait instruction of SpinUMonitor::UntilEqual while the
\* location already holds `expected`: the write came after the double check,
\* and the wake is pending.
C3_Witness ==
    \E t \in DOMAIN pc :
        /\ pc[t] = "mwait" /\ spin[t] = "SpinUMonitor" /\ op[t] = "UntilEqual"
        /\ watched[loc[t]] = arg[t]
        /\ monitor[t].hit

\* C4: UntilEqual returns only in a step that loads watched and reads
\* `expected`; hence only if watched held `expected` during the call.
C4_UntilEqualObserved ==
    [][\A t \in DOMAIN pc :
          pc[t] # "done" /\ pc'[t] = "done" /\ op[t] = "UntilEqual" =>
              /\ pc[t] \in {"load", "recheck"}
              /\ watched[loc[t]] = arg[t]
              /\ current'[t] = arg[t]
              /\ hist'[t].sat]_vars

\* SpinPause::UntilEqual returned after at least one Pause.
C4_Witness ==
    \E t \in DOMAIN pc :
        /\ pc[t] = "done" /\ op[t] = "UntilEqual" /\ spin[t] = "SpinPause"
        /\ executed[t].pause > 0
        /\ current[t] = arg[t]

\* C6: while the return condition has held at every instant since the call
\* began, the call is at its first check or has returned from it with
\* reps == 0, and no Pause, monitor or wait instruction was executed.
C6_FastPath ==
    \A t \in DOMAIN pc :
        pc[t] # "idle" /\ ~hist[t].unsat =>
            /\ pc[t] \in {"load", "done"}
            /\ executed[t] = NoExecuted
            /\ reps[t] = InitialReps(op[t])
            /\ pc[t] = "done" =>
                  ret[t].reps = IF op[t] = "UntilDifferent" THEN Zero32 ELSE Zero64

\* SpinUMonitor::UntilDifferent returned from its first check with reps == 0
\* although the writer stored (another value that differs) during the call.
C6_Witness ==
    \E t \in DOMAIN pc :
        /\ pc[t] = "done" /\ ~hist[t].unsat
        /\ spin[t] = "SpinUMonitor" /\ op[t] = "UntilDifferent"
        /\ ret[t].reps = Zero32
        /\ writes[loc[t]] > 0
        /\ ret[t].current = watched[loc[t]]

\* C7: a step that changes the value or the write count of a watched
\* location is a store of the writer: it counts as exactly one write, and it
\* is no step of DetectSpin, CallWithSpin or a wait loop (their variables
\* do not change in it).
C7_NoWriteByWaiter ==
    [][(watched' # watched \/ writes' # writes) =>
          /\ \E l \in DOMAIN watched :
                /\ writes' = [writes EXCEPT ![l] = @ + 1]
                /\ \A k \in DOMAIN watched \ {l} : watched'[k] = watched[k]
          /\ UNCHANGED <<pc, spin, op, arg, loc, current, reps, ret, executed>>
          /\ UNCHANGED detectVars]_vars

\* Both waiters are inside wait calls, one in its second wait instruction
\* and one at its double check, while the location has been written once.
C7_Witness ==
    /\ \E t \in DOMAIN pc : pc[t] = "mwait" /\ executed[t].mwait > 0
    /\ \E t \in DOMAIN pc : pc[t] = "recheck" /\ executed[t].monitor > 0
    /\ \E l \in DOMAIN watched : writes[l] = 1

-----------------------------------------------------------------------------
(* Liveness of the wait loops (checked under the scenario specifications). *)

\* C15: there is no timeout or give-up path.  A call during which the return
\* condition held at no instant (watched equal to prev throughout
\* UntilDifferent, never equal to expected throughout UntilEqual) has not
\* returned, however many rounds, pauses or wake-ups it went through.
C15_NoGiveUp ==
    \A t \in DOMAIN pc : pc[t] = "done" => hist[t].sat

\* A monitor waiter is back at the first load after MaxReps wake-ups, none
\* caused by a store, and its condition has not held yet.
C15_Witness ==
    \E t \in DOMAIN pc :
        /\ pc[t] = "load" /\ spin[t] # "SpinPause"
        /\ executed[t].mwait = MaxReps
        /\ writes[loc[t]] = 0
        /\ ~hist[t].sat

\* C17: a round of a monitor strategy is load, arm, load, wait, in that
\* order.  The monitor is armed only after the load of the same round found
\* the condition unsatisfied; the wait is issued only after the monitor was
\* armed in that round and the load after the arming found the condition
\* unsatisfied; when the wait ends the loop goes to the first load and does
\* not return.
C17_RoundOrder ==
    [][\A t \in DOMAIN pc :
          spin[t] # "SpinPause" /\ pc[t] # pc'[t] =>
              /\ pc[t] = "load" => pc'[t] \in {"monitor", "done"}
              /\ pc'[t] = "monitor" =>
                    /\ pc[t] = "load"
                    /\ ~Satisfied(op[t], current'[t], arg[t])
                    /\ executed[t].monitor = executed[t].mwait
              /\ pc[t] = "monitor" =>
                    /\ pc'[t] = "recheck"
                    /\ executed'[t].monitor = executed[t].monitor + 1
                    /\ monitor'[t].addr = loc[t]
              /\ pc[t] = "recheck" => pc'[t] \in {"mwait", "done"}
              /\ pc'[t] = "mwait" =>
                    /\ pc[t] = "recheck"
                    /\ monitor[t].addr = loc[t]
                    /\ executed[t].monitor = executed[t].mwait + 1
                    /\ ~Satisfied(op[t], current'[t], arg[t])
              /\ pc[t] = "mwait" =>
                    /\ pc'[t] = "load"
                    /\ ret'[t] = ret[t]
                    /\ executed'[t].mwait = executed[t].mwait + 1]_vars

\* A monitor waiter is in the wait instruction of its second round.
C17_Witness ==
    \E t \in DOMAIN pc :
        /\ pc[t] = "mwait" /\ spin[t] = "SpinMonitorX"
        /\ executed[t].mwait = 1
        /\ executed[t].monitor = 2

\* C2 (under OneWriteSpec): a call of UntilDifferent(v) made while
\* watched = v, followed by a single store of w # v at any point, returns,
\* and returns current = w.
C2_SingleWriteReturns ==
    \A t \in Waiters :
        (pc[t] # "idle") ~>
            /\ pc[t] = "done"
            /\ writes[loc[t]] = 1
            /\ ret[t].current = watched[loc[t]]
            /\ ret[t].current # arg[t]

\* SpinMonitorX::UntilDifferent(2^32 - 1) slept in the wait instruction, was
\* woken by the store of 0 and returned 0.
C2_Witness ==
    \E t \in DOMAIN pc :
        /\ pc[t] = "done" /\ spin[t] = "SpinMonitorX"
        /\ arg[t] = Max32 /\ ret[t].current = Zero32
        /\ executed[t].mwait = 1
        /\ writes[loc[t]] = 1

\* C5 (under TransientSpec): a waiter blocked in UntilEqual(expected) when
\* the writer stores `expected` returns, and has returned at the latest when
\* the writer, having held the value for one polling round, stores the next
\* value.
C5_TransientEqualSeen ==
    /\ \A t \in Waiters :
          (Active(t) /\ writes[loc[t]] = 1 /\ watched[loc[t]] = arg[t]) ~> (pc[t] = "done")
    /\ [][\A l \in DOMAIN watched :
             writes[l] = 1 /\ writes'[l] = 2 =>
                 \A t \in DOMAIN pc :
                     pc[t] # "idle" /\ loc[t] = l /\ arg[t] = watched[l] =>
                         pc[t] = "done"]_vars

\* The writer stored `expected` and then another value; the waiter, which
\* was in the wait instruction of SpinUMonitor::UntilEqual, returned.
C5_Witness ==
    \E t \in DOMAIN pc :
        /\ pc[t] = "done" /\ spin[t] = "SpinUMonitor" /\ op[t] = "UntilEqual"
        /\ executed[t].mwait > 0
        /\ writes[loc[t]] = 2
        /\ watched[loc[t]] # arg[t]

-----------------------------------------------------------------------------
(* Scenario: a call of UntilDifferent that has been waiting for a long     *)
(* time.  The behaviour starts at the first load of the round in which     *)
(* reps is 2^32 - 2: the location has held prev for 2^32 - 2 rounds.        *)

\* 2^32 - 2 as a uint32_t and as the 48-bit count of rounds.
LongWait32 == <<LimbMax, LimbMax - 1>>
LongWait48 == <<0, LimbMax, LimbMax - 1>>

LongWaitInit ==
    /\ build = [monitorx |-> TRUE, umonitor |-> TRUE]
    /\ cpu = BothCpu
    /\ \E m \in StartupMasks :
          /\ detected = DetectSpin(m).type
          /\ warnings = DetectSpin(m).warns
          /\ lastMask = m
    /\ detectCalls = 1
    /\ lastKind = kPause
    /\ invoked = <<>>
    /\ watched \in [Locs -> Values]
    /\ writes = [l \in Locs |-> 0]
    /\ pc = [t \in Waiters |-> IF t = 1 THEN "load" ELSE "idle"]
    /\ spin = [t \in Waiters |-> IF t = 1 THEN SpinClass(detected) ELSE "SpinPause"]
    /\ op = [t \in Waiters |-> "UntilDifferent"]
    /\ arg = [t \in Waiters |-> IF t = 1 THEN watched[1] ELSE Zero32]
    /\ loc = [t \in Waiters |-> 1]
    /\ current = [t \in Waiters |-> IF t = 1 THEN watched[1] ELSE Zero32]
    /\ reps = [t \in Waiters |-> IF t = 1 THEN LongWait32 ELSE Zero32]
    /\ ret = [t \in Waiters |-> NoRet]
    /\ monitor = [t \in Waiters |-> NoMonitor]
    /\ executed = [t \in Waiters |-> NoExecuted]
    /\ hist = [t \in Waiters |-> [sat |-> FALSE, unsat |-> t = 1]]
    /\ window = [t \in Waiters |-> 0]
    /\ before = [t \in Waiters |-> IF t = 1 THEN LongWait48 ELSE Zero48]

LongWaitNext == Step \/ Spurious \/ Write

LongWaitSpec == LongWaitInit /\ [][LongWaitNext]_vars

\* x + n on an unsigned integer of Len(x) limbs.
RECURSIVE IncN(_, _)
IncN(x, n) == IF n = 0 THEN x ELSE IncN(Inc(x), n - 1)

\* The limbs of x without leading zero limbs: the number itself, whatever
\* the width it was stored in.
RECURSIVE Numeral(_)
Numeral(x) == IF x # <<>> /\ x[1] = 0 THEN Numeral(Tail(x)) ELSE x

\* Rounds the call of waiter t has completed, as a number.
RoundsCompleted(t) == Numeral(IncN(before[t], Rounds(t)))

\* The pause hints (SpinPause) or wait instructions (monitor classes) the
\* call of waiter t has executed, as a number.
HintsOrWaits(t) ==
    Numeral(IncN(before[t], IF spin[t] = "SpinPause" THEN executed[t].pause
                                                     ELSE executed[t].mwait))

\* C18 as stated: the round count a call returns equals the number of polling
\* rounds it completed without the condition holding, which is the number of
\* pause hints executed (SpinPause) or of wait instructions issued (monitor
\* classes), whether it returned at the first check or at the check after
\* arming.
C18_RepsCountsRounds ==
    \A t \in DOMAIN pc :
        pc[t] = "done" =>
            /\ Numeral(ret[t].reps) = RoundsCompleted(t)
            /\ Numeral(ret[t].reps) = HintsOrWaits(t)

\* C19 as stated: UntilDifferent reports reps == 0 exactly when it returned
\* in its first round; a call that went through one or more unsuccessful
\* rounds never reports reps == 0.
C19_ZeroRepsIffFirstRound ==
    \A t \in DOMAIN pc :
        pc[t] = "done" /\ op[t] = "UntilDifferent" =>
            (ret[t].reps = Zero32 <=> RoundsCompleted(t) = <<>>)

-----------------------------------------------------------------------------
(* Scenario: two watched locations; each waiter calls UntilDifferent(v)    *)
(* with a strategy of its own on a location that holds v, and the writer   *)
(* stores one different value to each location that has a waiter.          *)

TwoLocs == {1, 2}

TwoLocInit ==
    /\ build = [monitorx |-> TRUE, umonitor |-> TRUE]
    /\ cpu = BothCpu
    /\ DetectInit
    /\ watched = [l \in TwoLocs |-> Zero32]
    /\ writes = [l \in TwoLocs |-> 0]
    /\ WaitInit

CallMixed ==
    /\ \E t \in DOMAIN pc, k \in SpinTypes, l \in DOMAIN watched :
          /\ writes[l] = 0
          /\ CallWithSpin(t, k, "UntilDifferent", watched[l], l)
    /\ UNCHANGED <<configVars, detectVars, window, before, dispatchVars>>

TwoLocNext == CallMixed \/ Step \/ Spurious \/ WriteOnce

TwoLocSpec == TwoLocInit /\ [][TwoLocNext]_vars /\ OneWriteFairness

\* C16 (under TwoLocSpec): when the writer has stored a value different from
\* prev to a location, every waiter on that location, whatever its strategy,
\* eventually returns that value; a waiter returns only after a store to its
\* own location, and a store to another location changes nothing of a
\* waiter's call.
C16_EachWaiterOwnLocation ==
    /\ \A t \in Waiters :
          (Active(t) /\ writes[loc[t]] = 1)
              ~> (pc[t] = "done" /\ ret[t].current = watched[loc[t]])
    /\ [](\A t \in Waiters : pc[t] = "done" => writes[loc[t]] = 1)
    /\ [][\A l \in DOMAIN watched :
             writes'[l] # writes[l] =>
                 \A t \in DOMAIN pc :
                     loc[t] # l =>
                         /\ pc'[t] = pc[t] /\ ret'[t] = ret[t]
                         /\ current'[t] = current[t] /\ reps'[t] = reps[t]
                         /\ monitor'[t] = monitor[t]]_vars

\* A SpinMonitorX waiter and a SpinPause waiter on the same location have
\* both returned the stored value, the first after a wait instruction, while
\* the other location was never written.
C16_Witness ==
    /\ pc[1] = "done" /\ pc[2] = "done"
    /\ loc[1] = loc[2]
    /\ spin[1] = "SpinMonitorX" /\ spin[2] = "SpinPause"
    /\ executed[1].mwait > 0
    /\ ret[1].current = watched[loc[1]] /\ ret[2].current = watched[loc[2]]
    /\ \E l \in DOMAIN watched : writes[l] = 0

-----------------------------------------------------------------------------
(* Scenario: side by side.  Waiter 1 runs a monitor strategy and waiter 2  *)
(* runs SpinPause; both are called with the same method and argument on    *)
(* the same location before the writer's first store, and then run         *)
(* against the same stores.                                                 *)

CallMonitor ==
    /\ \E k \in {kMonitorX, kUMonitor}, o \in Ops, a \in Values, l \in DOMAIN watched :
          CallWithSpin(1, k, o, a, l)
    /\ UNCHANGED <<configVars, detectVars, window, before, dispatchVars>>

CallPause ==
    /\ pc[1] = "load" /\ executed[1] = NoExecuted
    /\ CallWithSpin(2, kPause, op[1], arg[1], loc[1])
    /\ UNCHANGED <<configVars, detectVars, window, before, dispatchVars>>

WriteBoth ==
    /\ \A t \in DOMAIN pc : pc[t] # "idle"
    /\ Write

SideBySideNext == CallMonitor \/ CallPause \/ Step \/ Spurious \/ WriteBoth

\* Every thread is scheduled again and again and a wait instruction whose
\* monitor was hit completes.  Nothing promises a store or a spurious
\* wake-up.
SideBySideFairness ==
    \A t \in Waiters : WF_vars(WaiterStep(t) /\ UNCHANGED <<configVars, detectVars, window, before, dispatchVars>>)

SideBySideSpec == Init /\ [][SideBySideNext]_vars /\ SideBySideFairness

\* Instructions between the position of waiter t and the return of a load
\* that reads a satisfying value.
StepsToReturn(t) ==
    CASE pc[t] = "done" -> 0
      [] pc[t] \in {"load", "recheck"} -> 1
      [] pc[t] \in {"pause", "monitor", "mwait"} -> 2
      [] OTHER -> 3

\* C14 (under SideBySideSpec): a monitor strategy and SpinPause, run side by
\* side against the same stores, have the same outcomes.  Each returns only
\* in a load that reads a value satisfying the condition (watched != prev,
\* watched == expected) and returns what it read; while the location holds
\* such a value each of them, wherever it is in its loop, has a next
\* instruction that needs no spurious wake-up and brings it nearer to that
\* return; so each returns unless the condition fails again.
C14_SameOutcomes ==
    /\ [][\A t \in DOMAIN pc :
             pc[t] # "done" /\ pc'[t] = "done" =>
                 /\ pc[t] \in {"load", "recheck"}
                 /\ Satisfied(op[t], watched[loc[t]], arg[t])
                 /\ ret'[t] = Returned(op[t], watched[loc[t]], reps[t])]_vars
    /\ [](\A t \in Waiters :
             Active(t) /\ Satisfied(op[t], watched[loc[t]], arg[t]) =>
                 ENABLED (WaiterStep(t) /\ UNCHANGED <<configVars, detectVars, window, before, dispatchVars>>))
    /\ [][\A t \in DOMAIN pc :
             /\ Active(t) /\ pc'[t] # pc[t]
             /\ Satisfied(op[t], watched[loc[t]], arg[t])
             /\ watched' = watched
             => StepsToReturn(t)' < StepsToReturn(t)]_vars
    /\ \A t \in Waiters :
          Active(t) ~> (pc[t] = "done" \/ ~Satisfied(op[t], watched[loc[t]], arg[t]))

\* Both waiters wait for the same thing; the SpinPause waiter has returned
\* the value now in the location and the monitor waiter, woken by that
\* store, is at the load that will return it too.
C14_Witness ==
    /\ pc[2] = "done" /\ spin[2] = "SpinPause"
    /\ pc[1] = "load" /\ spin[1] # "SpinPause"
    /\ executed[1].mwait > 0
    /\ op[1] = "UntilDifferent" /\ op[2] = op[1] /\ arg[2] = arg[1]
    /\ ret[2].current = watched[loc[2]]
    /\ Satisfied(op[1], watched[loc[1]], arg[1])

====
